---- MODULE Spec2Model ----
(***************************************************************************)
(* waypaste: a model of waypaste/main.py.                                  *)
(*                                                                         *)
(* The process connects to the compositor (WaylandContext.__init__),       *)
(* claims the selection (create_data_source), opens the source, optionally *)
(* forks, and then runs MainThread, which alternates wait_for_paste() and  *)
(* the write of the source to the descriptor of the request.  The send and *)
(* cancelled handlers run synchronously inside display.dispatch() and      *)
(* display.roundtrip() and hand their outcome over in the single attribute *)
(* _send_args.                                                             *)
(*                                                                         *)
(* The compositor is the environment: once set_selection was issued it     *)
(* emits send and cancelled events for the data source, which wait in      *)
(* `queue` until a dispatch or a round-trip of the program handles them.   *)
(***************************************************************************)
EXTENDS Integers, Sequences, FiniteSets, TLC

(* ---- bounds of the model ---- *)
MaxEvents == 3      \* events the compositor emits for the data source
MaxLen == 1         \* length of the source's content

Bytes == {"a", "b"}
Types == {"text/plain", "UTF8_STRING"}

RECURSIVE SeqsUpTo(_, _)
SeqsUpTo(S, n) ==
    IF n = 0 THEN {<<>>}
    ELSE LET shorter == SeqsUpTo(S, n - 1)
         IN  shorter \cup {Append(s, x) : s \in {t \in shorter : Len(t) = n - 1}, x \in S}

Contents == SeqsUpTo(Bytes, MaxLen)
Range(s) == {s[i] : i \in 1..Len(s)}
\* the non-empty lists of distinct types, in every order
MimeLists ==
    {s \in SeqsUpTo(Types, Cardinality(Types)) : s # <<>> /\ Cardinality(Range(s)) = Len(s)}
\* serials are opaque tokens of the compositor
NoSerial == "none"
Serials == {"s1", "s2"}

(* ---- values ---- *)
Unset == [kind |-> "unset", mime |-> "", fd |-> 0]
SelectionChanged == [kind |-> "SelectionChanged", mime |-> "", fd |-> 0]
Args(mime_type, fd) == [kind |-> "args", mime |-> mime_type, fd |-> fd]
NoData == <<"None">>
NoExit == -1

SendEvent(n, mime_type) == [kind |-> "send", mime |-> mime_type, fd |-> n]
CancelledEvent(n) == [kind |-> "cancelled", mime |-> "", fd |-> n]

Step(op, mime_type, serial) == [op |-> op, mime |-> mime_type, serial |-> serial]

VARIABLES
    environ,          \* WAYLAND_DISPLAY: "absent", "" or a name
    foreground,       \* args.foreground
    mpc,              \* position of main()
    exit_status,      \* exit status of the serving process, NoExit while it runs
    parent_status,    \* exit status of the parent after fork(), NoExit before
    error,            \* what the process printed last (diagnostic or notice), "" if nothing
    log,              \* requests and local steps issued so far, in order
    mime_types,       \* argument of create_data_source
    offered,          \* how many of mime_types the loop has offered
    serial,           \* self._serial / the local serial, NoSerial when not set
    send_args,        \* self._send_args, Unset when the attribute is absent
    cancelled_count,  \* self._cancelled_count, -1 when the attribute is absent
    queue,            \* events emitted by the compositor, not yet handled
    emitted,          \* number of events emitted so far
    events,           \* events handled so far, in order
    overwritten,      \* outcomes a handler replaced in _send_args before they were read
    seekable,         \* data_source.seekable()
    content,          \* bytes of the source
    pos,              \* read position of data_source
    reads,            \* read() calls made on data_source so far
    paste_data,       \* MainThread.paste_data, NoData for None
    tpc,              \* position of MainThread.run
    cur,              \* (mime_type, fd) returned by wait_for_paste
    returned,         \* descriptors returned by wait_for_paste, in order
    opened,           \* descriptors opened with open(fd, "wb")
    closed,           \* descriptors closed
    served,           \* completed writes: [fd, mime, data]
    io_failed         \* descriptors whose serving raised an I/O error

vars == <<environ, foreground, mpc, exit_status, parent_status, error, log,
          mime_types, offered, serial, send_args, cancelled_count, queue,
          emitted, events, overwritten, seekable, content, pos, reads, paste_data,
          tpc, cur, returned, opened, closed, served, io_failed>>

ctxVars == <<send_args, cancelled_count, events, overwritten>>
srcVars == <<seekable, content, pos, reads, paste_data>>
thrVars == <<tpc, cur, returned, opened, closed, served, io_failed>>
envVars == <<queue, emitted>>

Init ==
    /\ environ \in {"absent", "", "wayland-0"}
    /\ foreground \in BOOLEAN
    /\ mpc = "ctx"
    /\ exit_status = NoExit
    /\ parent_status = NoExit
    /\ error = ""
    /\ log = <<>>
    /\ mime_types = <<>>
    /\ offered = 0
    /\ serial = NoSerial
    /\ send_args = Unset
    /\ cancelled_count = -1
    /\ queue = <<>>
    /\ emitted = 0
    /\ events = <<>>
    /\ overwritten = {}
    /\ seekable = FALSE
    /\ content = <<>>
    /\ pos = 0
    /\ reads = 0
    /\ paste_data = NoData
    /\ tpc = "idle"
    /\ cur = Unset
    /\ returned = <<>>
    /\ opened = {}
    /\ closed = {}
    /\ served = <<>>
    /\ io_failed = {}

Alive == exit_status = NoExit

(* ---- WaylandContext: handlers ---- *)

\* _send_handler: resets the count and stores the request, whatever the slot holds.
SendHandler(c, mime_type, fd) ==
    [send_args |-> Args(mime_type, fd), cancelled_count |-> 0]

\* A handler that leaves the slot alone.
CancelledHandlerIgnoring(c) == c

\* _cancelled_handler: stores the exception, whatever the slot holds; it does
\* not read or change _cancelled_count.
CancelledHandler(c) ==
    [send_args |-> SelectionChanged, cancelled_count |-> c.cancelled_count]

\* The dispatcher table of data_source: one handler call per event.  The
\* record also keeps the history of handled events and of replaced outcomes.
Deliver(st, e) ==
    LET c == [send_args |-> st.send_args, cancelled_count |-> st.cancelled_count]
        h == IF e.kind = "send" THEN SendHandler(c, e.mime, e.fd)
             ELSE CancelledHandler(c)
    IN  [send_args |-> h.send_args,
         cancelled_count |-> h.cancelled_count,
         events |-> Append(st.events, e),
         overwritten |-> IF st.send_args = Unset THEN st.overwritten
                         ELSE st.overwritten \cup {Len(st.events)}]

\* One display.dispatch(): the handlers run one after the other, in order.
RECURSIVE Dispatch(_, _)
Dispatch(st, batch) ==
    IF batch = <<>> THEN st
    ELSE Dispatch(Deliver(st, Head(batch)), Tail(batch))

CtxState ==
    [send_args |-> send_args, cancelled_count |-> cancelled_count,
     events |-> events, overwritten |-> overwritten]

\* The program handles the first n queued events.
HandleQueued(n) ==
    LET st == Dispatch(CtxState, SubSeq(queue, 1, n))
    IN  /\ send_args' = st.send_args
        /\ cancelled_count' = st.cancelled_count
        /\ events' = st.events
        /\ overwritten' = st.overwritten
        /\ queue' = SubSeq(queue, n + 1, Len(queue))

\* display.roundtrip(): every event the compositor emitted before it answered
\* the sync is handled before the call returns.
Roundtrip == HandleQueued(Len(queue))

(* ---- the compositor ---- *)

\* The compositor addresses send and cancelled events to a data source only
\* once the source is the selection, that is after set_selection was issued;
\* a send event names one of the offered types and carries a new descriptor.
Emit ==
    /\ Alive
    /\ mpc \notin {"ctx", "cds_create", "cds_offer", "cds_set"}
    /\ emitted < MaxEvents
    /\ emitted' = emitted + 1
    /\ \E e \in {CancelledEvent(emitted + 1)}
               \cup {SendEvent(emitted + 1, m) : m \in Range(mime_types)} :
           queue' = Append(queue, e)
    /\ UNCHANGED <<environ, foreground, mpc, exit_status, parent_status, error,
                   log, mime_types, offered, serial, ctxVars, srcVars, thrVars>>

(* ---- main(): connection ---- *)

\* An except clause that blames the variable without looking at it.
ConnectErrorAlways(env) == "WAYLAND_DISPLAY is not set"

\* except Exception as e: the variable is looked at only here, after
\* display.connect() has raised.
ConnectError(env) ==
    IF env \in {"absent", ""} THEN "WAYLAND_DISPLAY is not set" ELSE "connect failed"

BindSteps(globals) ==
    (IF "wl_data_device_manager" \in globals
        THEN <<Step("bind", "wl_data_device_manager", NoSerial)>> ELSE <<>>)
    \o (IF "wl_seat" \in globals THEN <<Step("bind", "wl_seat", NoSerial)>> ELSE <<>>)

\* An __init__ that binds the device whether or not a seat was advertised.
WaylandContextInitAnySeat(env, connect_ok, globals) ==
    LET discovery == <<Step("connect", "", NoSerial), Step("get_registry", "", NoSerial),
                       Step("dispatch", "", NoSerial), Step("roundtrip", "", NoSerial)>>
                     \o BindSteps(globals)
    IN  IF ~connect_ok
        THEN [error |-> ConnectError(env), steps |-> <<Step("connect", "", NoSerial)>>]
        ELSE IF "wl_data_device_manager" \notin globals
        THEN [error |-> "No data device manager provided by compositor",
              steps |-> discovery]
        ELSE [error |-> "",
              steps |-> Append(discovery, Step("get_data_device", "", NoSerial))]

\* WaylandContext.__init__: the exception it raises ("" if none) and the
\* requests it issues.
WaylandContextInit(env, connect_ok, globals) ==
    LET discovery == <<Step("connect", "", NoSerial), Step("get_registry", "", NoSerial),
                       Step("dispatch", "", NoSerial), Step("roundtrip", "", NoSerial)>>
                     \o BindSteps(globals)
    IN  IF ~connect_ok
        THEN [error |-> ConnectError(env), steps |-> <<Step("connect", "", NoSerial)>>]
        ELSE IF "wl_data_device_manager" \notin globals
        THEN [error |-> "No data device manager provided by compositor",
              steps |-> discovery]
        ELSE IF "wl_seat" \notin globals
        THEN [error |-> "AttributeError: seat", steps |-> discovery]
        ELSE [error |-> "",
              steps |-> Append(discovery, Step("get_data_device", "", NoSerial))]

\* main(): ctx = WaylandContext(), any Exception ends the process with status 1.
MainConnect ==
    /\ Alive
    /\ mpc = "ctx"
    /\ \E connect_ok \in BOOLEAN, globals \in SUBSET {"wl_seat", "wl_data_device_manager"} :
         LET r == WaylandContextInit(environ, connect_ok, globals)
         IN  /\ log' = log \o r.steps
             /\ error' = r.error
             /\ IF r.error # ""
                THEN mpc' = "exited" /\ exit_status' = 1
                ELSE mpc' = "cds_create" /\ exit_status' = exit_status
    /\ UNCHANGED <<environ, foreground, parent_status, mime_types, offered, serial,
                   ctxVars, envVars, srcVars, thrVars>>

(* ---- WaylandContext.create_data_source ---- *)

\* A main() that reports the exception and carries on.
UncaughtSwallowed(what) ==
    /\ error' = what
    /\ mpc' = "open"
    /\ exit_status' = exit_status

\* An exception raised inside main() outside its try blocks: traceback, status 1.
Uncaught(what) ==
    /\ error' = what
    /\ mpc' = "exited"
    /\ exit_status' = 1

\* create the object, then register both handlers.
CreateSteps ==
    <<Step("create_data_source", "", NoSerial),
      Step("dispatcher", "send", NoSerial),
      Step("dispatcher", "cancelled", NoSerial)>>

\* The loop walking the list from its end.
OfferStepReversed(types, i) == Step("offer", types[Len(types) - i], NoSerial)

\* for mime_type in mime_types: the i-th iteration of the loop (i from 0).
OfferStep(types, i) == Step("offer", types[i + 1], NoSerial)

CdsCreate ==
    /\ Alive
    /\ mpc = "cds_create"
    /\ \E types \in MimeLists : mime_types' = types
    /\ log' = log \o CreateSteps
    /\ offered' = 0
    /\ mpc' = "cds_offer"
    /\ UNCHANGED <<environ, foreground, exit_status, parent_status, error, serial,
                   ctxVars, envVars, srcVars, thrVars>>

CdsOffer ==
    /\ Alive
    /\ mpc = "cds_offer"
    /\ offered < Len(mime_types)
    /\ log' = Append(log, OfferStep(mime_types, offered))
    /\ offered' = offered + 1
    /\ UNCHANGED <<environ, foreground, mpc, exit_status, parent_status, error,
                   mime_types, serial, ctxVars, envVars, srcVars, thrVars>>

\* _get_new_serial: sync, round-trip, take the serial of the done callback.
CdsGetNewSerial ==
    /\ Alive
    /\ mpc = "cds_offer"
    /\ offered = Len(mime_types)
    /\ Roundtrip
    /\ emitted' = emitted
    /\ \/ /\ \E s \in Serials : serial' = s
          /\ log' = log \o <<Step("sync", "", NoSerial), Step("roundtrip", "", NoSerial)>>
          /\ mpc' = "cds_set"
          /\ UNCHANGED <<exit_status, error>>
       \/ /\ Uncaught("Traceback: roundtrip")
          /\ log' = log \o <<Step("sync", "", NoSerial), Step("roundtrip", "", NoSerial)>>
          /\ serial' = serial
    /\ UNCHANGED <<environ, foreground, parent_status, mime_types, offered,
                   srcVars, thrVars>>

\* data_device.set_selection(data_source, serial)
SetSelectionStep(s) == Step("set_selection", "", s)

CdsSetSelection ==
    /\ Alive
    /\ mpc = "cds_set"
    /\ log' = Append(log, SetSelectionStep(serial))
    /\ mpc' = "cds_roundtrip"
    /\ UNCHANGED <<environ, foreground, exit_status, parent_status, error,
                   mime_types, offered, serial, ctxVars, envVars, srcVars, thrVars>>

CdsRoundtrip ==
    /\ Alive
    /\ mpc = "cds_roundtrip"
    /\ Roundtrip
    /\ emitted' = emitted
    /\ log' = Append(log, Step("roundtrip", "", NoSerial))
    /\ \/ mpc' = "open" /\ UNCHANGED <<exit_status, error>>
       \/ Uncaught("Traceback: roundtrip")
    /\ UNCHANGED <<environ, foreground, parent_status, mime_types, offered, serial,
                   srcVars, thrVars>>

(* ---- main(): source, fork, thread ---- *)

\* data_source.read(): the bytes from the position to the end.
SourceRead(c, p) == SubSeq(c, p + 1, Len(c))

\* open(args.source, "rb"); a source that is not seekable is read once, here.
MainOpen ==
    /\ Alive
    /\ mpc = "open"
    /\ \/ /\ \E sk \in BOOLEAN, c \in Contents :
               /\ seekable' = sk
               /\ content' = c
               /\ IF sk THEN pos' = 0 /\ reads' = 0 /\ paste_data' = NoData
                        ELSE pos' = Len(c) /\ reads' = 1 /\ paste_data' = SourceRead(c, 0)
          /\ log' = Append(log, Step("open_source", "", NoSerial))
          /\ mpc' = "fork"
          /\ UNCHANGED <<exit_status, error>>
       \/ /\ Uncaught("Traceback: open")
          /\ UNCHANGED <<log, srcVars>>
    /\ UNCHANGED <<environ, foreground, parent_status, mime_types, offered, serial,
                   ctxVars, envVars, thrVars>>

\* if not args.foreground: fork(), the parent leaves with _exit(0).
MainFork ==
    /\ Alive
    /\ mpc = "fork"
    /\ IF foreground
       THEN UNCHANGED <<parent_status, log>>
       ELSE parent_status' = 0 /\ log' = Append(log, Step("fork", "", NoSerial))
    /\ mpc' = "start"
    /\ UNCHANGED <<environ, foreground, exit_status, error, mime_types, offered,
                   serial, ctxVars, envVars, srcVars, thrVars>>

\* A main() that starts the thread before it reaches the fork.
MainStartBeforeFork ==
    /\ Alive
    /\ mpc = "fork"
    /\ tpc = "idle"
    /\ tpc' = "wait"
    /\ log' = Append(log, Step("thread_start", "", NoSerial))
    /\ UNCHANGED <<environ, foreground, mpc, exit_status, parent_status, error,
                   mime_types, offered, serial, ctxVars, envVars, srcVars,
                   cur, returned, opened, closed, served, io_failed>>

\* MainThread(ctx, data_source, paste_data).start()
MainStart ==
    /\ Alive
    /\ mpc = "start"
    /\ mpc' = "join"
    /\ tpc' = "wait"
    /\ log' = Append(log, Step("thread_start", "", NoSerial))
    /\ UNCHANGED <<environ, foreground, exit_status, parent_status, error,
                   mime_types, offered, serial, ctxVars, envVars, srcVars,
                   cur, returned, opened, closed, served, io_failed>>

\* A main thread that pumps the display itself while it waits for the thread.
MainJoinPumping ==
    /\ Alive
    /\ mpc = "join"
    /\ queue # <<>>
    /\ HandleQueued(Len(queue))
    /\ UNCHANGED <<environ, foreground, mpc, exit_status, parent_status, error,
                   log, mime_types, offered, serial, emitted, srcVars, thrVars>>

\* main_thread.join() returns when run() has ended, by break or by an
\* exception; main() returns and the process ends with status 0.
MainJoin ==
    /\ Alive
    /\ mpc = "join"
    /\ tpc \in {"stopped", "crashed"}
    /\ mpc' = "exited"
    /\ exit_status' = 0
    /\ UNCHANGED <<environ, foreground, parent_status, error, log, mime_types,
                   offered, serial, ctxVars, envVars, srcVars, thrVars>>

\* KeyboardInterrupt in the main thread: caught only around start() and join().
InterruptStatus == {1, 130}

KeyboardInterrupt ==
    /\ Alive
    /\ mpc' = "exited"
    /\ IF mpc \in {"start", "join"}
       THEN error' = "Received ^C, exiting" /\ exit_status' = 0
       ELSE error' = "Traceback: KeyboardInterrupt" /\ exit_status' \in InterruptStatus
    /\ UNCHANGED <<environ, foreground, parent_status, log, mime_types, offered,
                   serial, ctxVars, envVars, srcVars, thrVars>>

(* ---- WaylandContext.wait_for_paste and MainThread.run ---- *)

\* while not hasattr(self, '_send_args'): self.display.dispatch()
\* One dispatch handles at least one of the queued events, possibly all.
WaitDispatch ==
    /\ Alive
    /\ tpc = "wait"
    /\ send_args = Unset
    /\ queue # <<>>
    /\ \E n \in 1..Len(queue) : HandleQueued(n)
    /\ UNCHANGED <<environ, foreground, mpc, exit_status, parent_status, error,
                   log, mime_types, offered, serial, emitted, srcVars, thrVars>>

\* The end of wait_for_paste once the attribute exists: an exception is
\* raised and stays in the attribute, anything else is returned and deleted.
WaitForPaste(slot) ==
    IF slot.kind = "SelectionChanged"
    THEN [raised |-> TRUE, ret |-> Unset, send_args |-> slot]
    ELSE [raised |-> FALSE, ret |-> slot, send_args |-> Unset]

\* wait_for_paste leaves its loop: the exception is raised, and caught by
\* run(), which breaks; anything else is read into ret.
WaitReturn ==
    /\ Alive
    /\ tpc = "wait"
    /\ send_args # Unset
    /\ LET r == WaitForPaste(send_args)
       IN  IF r.raised
           THEN tpc' = "stopped" /\ UNCHANGED cur
           ELSE tpc' = "taken" /\ cur' = r.ret
    /\ UNCHANGED <<environ, foreground, mpc, exit_status, parent_status, error,
                   log, mime_types, offered, serial, ctxVars, envVars, srcVars,
                   returned, opened, closed, served, io_failed>>

\* del self._send_args; return ret
WaitDelete ==
    /\ Alive
    /\ tpc = "taken"
    /\ send_args' = WaitForPaste(send_args).send_args
    /\ returned' = Append(returned, cur.fd)
    /\ tpc' = "serve"
    /\ UNCHANGED <<environ, foreground, mpc, exit_status, parent_status, error,
                   log, mime_types, offered, serial, cancelled_count, events,
                   overwritten, envVars, srcVars, cur, opened, closed, served,
                   io_failed>>

\* An exception other than SelectionChanged leaves run(): the thread ends.
Crash ==
    /\ tpc' = "crashed"
    /\ io_failed' = io_failed \cup {cur.fd}

\* A read that starts where the previous one stopped.
SeekPosKept(p) == p

\* The position from which the seekable source is read: data_source.seek(0).
SeekPos(p) == 0

\* An iteration that reads the source again whatever its kind.
PasteDataReread(sk, c, p, captured) == SourceRead(c, IF sk THEN 0 ELSE p)

\* An iteration with the test on seekable() inverted.
PasteDataInverted(sk, c, p, captured) ==
    IF ~sk THEN SourceRead(c, 0) ELSE captured

\* The read() calls one iteration makes on the source.
IterationReads(sk) == IF sk THEN 1 ELSE 0

\* The bytes of one iteration: a seekable source is rewound and read to its
\* end, any other source was read once by main().
PasteData(sk, c, p, captured) ==
    IF sk THEN SourceRead(c, SeekPos(p)) ELSE captured

\* The I/O errors an iteration can meet: seek/read of the source (before the
\* descriptor is opened), open(fd, "wb"), and fcntl/write inside the with block.
Outcomes(sk) ==
    {"ok", "open_error", "write_error"} \cup (IF sk THEN {"read_error"} ELSE {})

\* One iteration of run() after wait_for_paste returned.  Only SelectionChanged
\* is caught: any I/O error leaves run() and ends the thread.  The with block
\* closes the descriptor once open() has succeeded, whatever happens inside.
ServeRequest ==
    /\ Alive
    /\ tpc = "serve"
    /\ \E outcome \in Outcomes(seekable) :
         /\ pos' = IF seekable /\ outcome # "read_error" THEN Len(content) ELSE pos
         /\ reads' = reads + IterationReads(seekable)
         /\ opened' = IF outcome \in {"ok", "write_error"}
                      THEN opened \cup {cur.fd} ELSE opened
         /\ closed' = IF outcome \in {"ok", "write_error"}
                      THEN closed \cup {cur.fd} ELSE closed
         /\ IF outcome = "ok"
            THEN /\ served' = Append(served, [fd |-> cur.fd, mime |-> cur.mime,
                                             data |-> PasteData(seekable, content, pos, paste_data)])
                 /\ tpc' = "wait"
                 /\ UNCHANGED io_failed
            ELSE /\ Crash
                 /\ UNCHANGED served
    /\ UNCHANGED <<environ, foreground, mpc, exit_status, parent_status, error,
                   log, mime_types, offered, serial, ctxVars, envVars, seekable,
                   content, paste_data, cur, returned>>

Next ==
    \/ Emit
    \/ MainConnect
    \/ CdsCreate
    \/ CdsOffer
    \/ CdsGetNewSerial
    \/ CdsSetSelection
    \/ CdsRoundtrip
    \/ MainOpen
    \/ MainFork
    \/ MainStart
    \/ MainJoin
    \/ KeyboardInterrupt
    \/ WaitDispatch
    \/ WaitReturn
    \/ WaitDelete
    \/ ServeRequest

Spec == Init /\ [][Next]_vars

(* ---- histories the properties read ---- *)

Last(s) == s[Len(s)]

\* The number of cancelled events handled since the claim or since the most
\* recent send event.
RECURSIVE TrailingCancelled(_)
TrailingCancelled(evs) ==
    IF evs = <<>> \/ Last(evs).kind # "cancelled" THEN 0
    ELSE 1 + TrailingCancelled(SubSeq(evs, 1, Len(evs) - 1))

\* Two cancelled events were handled one after the other before event i.
RevokedBefore(evs, i) ==
    \E j \in 1..(i - 2) : evs[j].kind = "cancelled" /\ evs[j + 1].kind = "cancelled"

Times(s, x) == Cardinality({i \in 1..Len(s) : s[i] = x})
ServedFds == [i \in 1..Len(served) |-> served[i].fd]

\* The steps of create_data_source for a list and a serial, in order.
ClaimSteps(types, s) ==
    <<Step("create_data_source", "", NoSerial),
      Step("dispatcher", "send", NoSerial),
      Step("dispatcher", "cancelled", NoSerial)>>
    \o [i \in 1..Len(types) |-> Step("offer", types[i], NoSerial)]
    \o <<Step("sync", "", NoSerial), Step("roundtrip", "", NoSerial),
         Step("set_selection", "", s), Step("roundtrip", "", NoSerial)>>

\* The steps logged from the creation of the offer on.
FromCreate(l) ==
    LET at == {i \in 1..Len(l) : l[i].op = "create_data_source"}
    IN  IF at = {} THEN <<>>
        ELSE SubSeq(l, CHOOSE i \in at : \A j \in at : i <= j, Len(l))

ClaimInOrder == FromCreate(log) = ClaimSteps(mime_types, serial)

(* ---- properties ---- *)

\* C1: once two cancelled events have been handled with no send event
\* between or after them, the mailbox holds SelectionChanged, so the next
\* wait_for_paste() raises it; the step that leaves wait_for_paste() then
\* stops the serving loop, and a process whose loop has stopped exits with 0.
C1_TwoRevocationsStop ==
    /\ [](TrailingCancelled(events) >= 2
            => /\ send_args = SelectionChanged
               /\ WaitForPaste(send_args).raised
               /\ tpc \in {"idle", "wait", "stopped"})
    /\ [][(tpc = "wait" /\ tpc' # "wait" /\ TrailingCancelled(events) >= 2)
            => tpc' = "stopped"]_vars
    /\ [](tpc = "stopped" /\ ~Alive => exit_status = 0)

C1_Witness ==
    /\ TrailingCancelled(events) >= 2
    /\ tpc = "stopped"
    /\ exit_status = 0

\* C2: a cancelled event that a send event follows does not stop the serving
\* loop: the loop is never stopped on a single cancelled event while the send
\* event that follows it is still waiting to be handled.
C2_RevocationThenRequestServes ==
    ~(/\ tpc = "stopped"
      /\ TrailingCancelled(events) = 1
      /\ queue # <<>>
      /\ Head(queue).kind = "send")

\* C3: the serving loop has stopped on SelectionChanged only if at least two
\* cancelled events were handled since the claim or the most recent send event.
C3_StoppedOnlyAfterTwo ==
    tpc = "stopped" => TrailingCancelled(events) >= 2

\* C4: no content request handled after two consecutive cancelled events is
\* returned by wait_for_paste() or written to its descriptor.
C4_RevokedIsTerminal ==
    \A i \in 1..Len(events) :
        (events[i].kind = "send" /\ RevokedBefore(events, i))
            => /\ Times(returned, events[i].fd) = 0
               /\ Times(ServedFds, events[i].fd) = 0

\* C5: no handler writes the mailbox while it holds an outcome that
\* wait_for_paste() has not read.
C5_NoOverwrite == overwritten = {}

\* C6: every send event handled is in the mailbox or was returned by
\* wait_for_paste() exactly once, and no request is served more than once.
C6_EveryRequestOnce ==
    \A i \in 1..Len(events) :
        events[i].kind = "send"
            => /\ \/ send_args = Args(events[i].mime, events[i].fd)
                  \/ Times(returned, events[i].fd) = 1
               /\ Times(returned, events[i].fd) <= 1
               /\ Times(ServedFds, events[i].fd) <= 1

C8_IOErrorKeepsServing ==
    io_failed # {} => tpc \in {"wait", "serve", "stopped"}

\* C9: the descriptor of every request wait_for_paste() returned is closed
\* once its iteration has ended.
C9_DescriptorClosed ==
    \A i \in 1..Len(returned) :
        \/ tpc = "serve" /\ cur.fd = returned[i]
        \/ returned[i] \in closed

\* C10: for a seekable source every request writes the whole content of the
\* source, so successive requests write the same bytes.
C10_ReplayFromStart ==
    seekable => \A i \in 1..Len(served) : served[i].data = content

C10_Witness ==
    /\ seekable
    /\ content # <<>>
    /\ Len(served) >= 2

\* C11: a source that is not seekable is read exactly once, by main(), and
\* never while serving; every request, whatever its type, writes the bytes
\* captured by that one read.
C11_CapturedOnce ==
    (~seekable /\ paste_data # NoData)
        => /\ reads = 1
           /\ paste_data = content
           /\ \A i \in 1..Len(served) : served[i].data = paste_data

C11_Witness ==
    /\ ~seekable
    /\ content # <<>>
    /\ Len(served) >= 2
    /\ served[1].mime # served[2].mime

NotConfigured == environ \in {"absent", ""}
HasStep(op) == \E i \in 1..Len(log) : log[i].op = op
\* display.connect() raised: the connect attempt is all the process ever did.
ConnectFailed == log = <<Step("connect", "", NoSerial)>>

\* C12, as stated: with WAYLAND_DISPLAY missing or empty WaylandContext()
\* fails with "WAYLAND_DISPLAY is not set" before any registry request,
\* whether or not the connect attempt succeeds; a failed connect with the
\* variable set gives the connection error.
C12_NotConfiguredAlwaysFails ==
    /\ (NotConfigured /\ HasStep("connect"))
           => /\ error = "WAYLAND_DISPLAY is not set"
              /\ exit_status = 1
              /\ ~HasStep("get_registry")
    /\ (~NotConfigured /\ ConnectFailed) => error = "connect failed"

\* C12, amended: when the connect attempt fails, WaylandContext() fails with
\* "WAYLAND_DISPLAY is not set" if the variable is missing or empty and with
\* the connection error if it is set, in both cases before any registry
\* request and with status 1; that message is never given otherwise.
C12_ConfigErrorOnFailedConnect ==
    /\ ConnectFailed
           => /\ exit_status = 1
              /\ error = IF NotConfigured THEN "WAYLAND_DISPLAY is not set"
                         ELSE "connect failed"
    /\ error = "WAYLAND_DISPLAY is not set"
           => NotConfigured /\ ConnectFailed /\ ~HasStep("get_registry")

C12_Witness ==
    /\ environ = "absent"
    /\ ConnectFailed
    /\ error = "WAYLAND_DISPLAY is not set"
    /\ exit_status = 1

HasBind(iface_name) ==
    \E i \in 1..Len(log) : log[i].op = "bind" /\ log[i].mime = iface_name
BothGlobals == HasBind("wl_seat") /\ HasBind("wl_data_device_manager")

\* C13: the data device is requested only when both the seat and the data
\* device manager were bound; when either is absent after the registry
\* dispatch and round-trip, WaylandContext() raises: no device is requested,
\* no claim is attempted and the process exits with status 1.
C13_DeviceNeedsBothGlobals ==
    /\ HasStep("get_data_device") => BothGlobals
    /\ (HasStep("get_registry") /\ ~BothGlobals)
           => /\ exit_status = 1
              /\ error # ""
              /\ ~HasStep("get_data_device")
              /\ ~HasStep("create_data_source")
              /\ ~HasStep("set_selection")
              /\ tpc = "idle"

C13_Witness ==
    /\ HasStep("get_registry")
    /\ HasBind("wl_data_device_manager")
    /\ ~HasBind("wl_seat")
    /\ exit_status = 1

\* C14: when the source cannot be opened or read, main() fails before any
\* protocol interaction: no connection, registry request, offer creation or
\* set_selection precedes the failure.
C14_SourceFailureBeforeProtocol ==
    error = "Traceback: open"
        => /\ ~HasStep("connect")
           /\ ~HasStep("get_registry")
           /\ ~HasStep("create_data_source")
           /\ ~HasStep("set_selection")

ClaimOps == {"create_data_source", "dispatcher", "offer", "sync", "set_selection",
             "roundtrip", "connect", "get_registry", "dispatch", "bind",
             "get_data_device"}
ClaimFailures ==
    {"WAYLAND_DISPLAY is not set", "connect failed",
     "No data device manager provided by compositor", "AttributeError: seat",
     "Traceback: roundtrip"}
\* create_data_source has issued all its steps.
ClaimIssued ==
    LET steps == ClaimSteps(mime_types, serial)
        mine == FromCreate(log)
    IN  Len(mine) >= Len(steps) /\ SubSeq(mine, 1, Len(steps)) = steps

\* C15: in background mode the fork, and with it the exit 0 of the parent,
\* comes after create_data_source has completed and before the thread starts:
\* every connection and claim step precedes it, no connection or claim failure
\* follows it, and nothing is served before it.
C15_ForkBetweenClaimAndServing ==
    /\ parent_status # NoExit
           => /\ ~foreground
              /\ parent_status = 0
              /\ ClaimIssued
              /\ error \notin ClaimFailures
              /\ exit_status # 1
    /\ parent_status # NoExit
           => \E i \in 1..Len(log) :
                  /\ log[i].op = "fork"
                  /\ \A j \in 1..(i - 1) : log[j].op # "thread_start"
                  /\ \A j \in (i + 1)..Len(log) : log[j].op \notin ClaimOps
    /\ (~foreground /\ parent_status = NoExit)
           => tpc = "idle" /\ returned = <<>> /\ served = <<>>

C15_Witness ==
    /\ ~foreground
    /\ parent_status = 0
    /\ Len(served) >= 1

\* C16: a failure of WaylandContext() or of create_data_source() ends the
\* process with status 1 and a diagnostic, before the fork and without the
\* serving thread ever starting; the thread only starts after a complete claim.
C16_FailureExitsOne ==
    /\ error \in ClaimFailures
           => /\ exit_status = 1
              /\ mpc = "exited"
              /\ tpc = "idle"
              /\ parent_status = NoExit
              /\ ~HasStep("thread_start")
    /\ tpc # "idle" => BothGlobals /\ HasStep("get_data_device") /\ ClaimIssued

C16_Witness ==
    /\ error = "Traceback: roundtrip"
    /\ HasStep("set_selection")
    /\ events # <<>>
    /\ exit_status = 1

Interrupted == error \in {"Received ^C, exiting", "Traceback: KeyboardInterrupt"}

\* C17: in foreground mode an interrupt, wherever in main() it arrives,
\* prints the notice and ends the process with status 0.
C17_InterruptExitsZero ==
    (foreground /\ Interrupted)
        => error = "Received ^C, exiting" /\ exit_status = 0

\* C18: no handler runs between the read and the delete of the mailbox in
\* wait_for_paste(): handlers run only in the round-trips of the claim, before
\* the thread exists, and in the thread's own dispatch() while the mailbox is
\* empty; once the thread runs, a step of main() changes nothing the thread
\* reads or writes.
C18_MailboxExclusive ==
    /\ [][tpc = "taken"
            => /\ events' = events
               /\ \/ send_args' = send_args
                  \/ tpc' = "serve" /\ send_args' = Unset]_vars
    /\ [][events' # events
            => \/ tpc = "idle" /\ mpc \in {"cds_offer", "cds_roundtrip"}
               \/ tpc = "wait" /\ send_args = Unset /\ mpc' = mpc]_vars
    /\ [][(tpc # "idle" /\ mpc' # mpc)
            => UNCHANGED <<ctxVars, srcVars, thrVars, queue>>]_vars

C18_Witness ==
    /\ tpc = "taken"
    /\ mpc = "join"
    /\ queue # <<>>
    /\ send_args = cur

\* What a handled event stores in the mailbox.
Outcome(e) == IF e.kind = "send" THEN Args(e.mime, e.fd) ELSE SelectionChanged

\* C19: between the return of create_data_source and the start of the thread
\* every event handled so far was handled by a round-trip of the claim; the
\* outcome each of them recorded is still in the mailbox, so that the first
\* wait_for_paste() finds the mailbox set and does not dispatch.
C19_ClaimEventsKept ==
    mpc \in {"open", "fork", "start"}
        => /\ \A i \in 1..Len(events) : send_args = Outcome(events[i])
           /\ events # <<>> => send_args # Unset

\* C20: paste_data is None exactly when the source is seekable, the bytes an
\* iteration hands to write() are never None, and no completed write wrote None.
C20_WrittenBytesDefined ==
    /\ (mpc \in {"fork", "start", "join"} \/ tpc # "idle")
           => ((paste_data = NoData) <=> seekable)
    /\ tpc \in {"taken", "serve"}
           => PasteData(seekable, content, pos, paste_data) # NoData
    /\ \A i \in 1..Len(served) : served[i].data # NoData

C20_Witness ==
    /\ seekable
    /\ paste_data = NoData
    /\ Len(served) >= 1
    /\ tpc = "serve"

====
